---- MODULE Spec2Model ----
(***************************************************************************)
(* A model of src/t.c: the expression enumerator expr_iter, the growable   *)
(* ExprList with its allocator discipline, the evaluator expr_eval and the *)
(* formatter expr_repr, together with main, which drives them.             *)
(*                                                                         *)
(* The heap is a sequence of blocks; a pointer is an index into it and 0   *)
(* is NULL.  free() does not remove a block: it counts the calls made on   *)
(* it, so a leak is a node block with freed = 0 and a double free one with *)
(* freed > 1.  The recursion of expr_iter is an explicit stack of frames.  *)
(***************************************************************************)
EXTENDS Integers, Sequences, FiniteSets, TLC

VARIABLES mem, stack, mpc, budget, mlist, mi, v, out, cand, prov,
          input, tree, result, buffer

vars == <<mem, stack, mpc, budget, mlist, mi, v, out, cand, prov,
          input, tree, result, buffer>>

(* ------------------------------ constants ------------------------------ *)

LIMIT == 7
NUMS_SIZE == 2
OPS_SIZE == 5
LIST_CAPACITY == 100
TARGET == 114514

\* op_func ops[OPS_SIZE]: a function pointer is the name of the function.
ops == <<"add", "sub", "mul", "truediv", "power">>

(* ------------------------------- bounds -------------------------------- *)

\* main is also run with every budget 0..MaxBudget in place of LIMIT.
MaxBudget == 3
\* The deepest stack of expr_iter activations that is explored.
MaxDepth == 10
\* BodySpec: the budgets of the activation, and the most Binary nodes in the
\* collection a recursive call hands back.
MaxBodyBudget == 3
MaxBin == 3
\* TreeSpec: the most Binary nodes of an input tree.
MaxTreeOps == 2
\* power is computed exactly for exponents 0..MaxExactExp and bases whose
\* numerator and denominator are at most MaxExactBase.
MaxExactExp == 3
MaxExactBase == 30

(* ------------------------------- doubles ------------------------------- *)
(* A double is M_E, M_PI (named constants of math.h), an exact rational    *)
(* n/d in lowest terms with d > 0, or, where this model does not compute   *)
(* the result, the application of the C function to its two operands.      *)

M_E == [k |-> "const", name |-> "M_E"]
M_PI == [k |-> "const", name |-> "M_PI"]

\* double nums[NUMS_SIZE] = {M_E, M_PI}
nums == <<M_E, M_PI>>

Abs(n) == IF n < 0 THEN -n ELSE n

RECURSIVE Gcd(_, _)
Gcd(a, b) == IF b = 0 THEN a ELSE Gcd(b, a % b)

Rat(n, d) ==
    LET s == IF d < 0 THEN -1 ELSE 1
        g == Gcd(Abs(n), Abs(d))
    IN  [k |-> "rat", n |-> (s * n) \div g, d |-> (s * d) \div g]

Num(n) == Rat(n, 1)

IsRat(a) == a.k = "rat"

App(fn, a, b) == [k |-> "app", fn |-> fn, a |-> a, b |-> b]

RECURSIVE IntPow(_, _)
IntPow(b, e) == IF e = 0 THEN 1 ELSE b * IntPow(b, e - 1)

add(a, b) ==
    IF IsRat(a) /\ IsRat(b) THEN Rat(a.n * b.d + b.n * a.d, a.d * b.d)
    ELSE App("add", a, b)

sub(a, b) ==
    IF IsRat(a) /\ IsRat(b) THEN Rat(a.n * b.d - b.n * a.d, a.d * b.d)
    ELSE App("sub", a, b)

mul(a, b) ==
    IF IsRat(a) /\ IsRat(b) THEN Rat(a.n * b.n, a.d * b.d)
    ELSE App("mul", a, b)

\* a / 0 is inf or nan: kept as the application.
truediv(a, b) ==
    IF IsRat(a) /\ IsRat(b) /\ b.n # 0 THEN Rat(a.n * b.d, a.d * b.n)
    ELSE App("truediv", a, b)

power(a, b) ==
    IF /\ IsRat(a) /\ IsRat(b)
       /\ b.d = 1 /\ b.n >= 0 /\ b.n <= MaxExactExp
       /\ Abs(a.n) <= MaxExactBase /\ a.d <= MaxExactBase
    THEN Rat(IntPow(a.n, b.n), IntPow(a.d, b.n))
    ELSE App("power", a, b)

\* tuple->op(a, b): the call through the function pointer.
call_op(op, a, b) ==
    CASE op = "add" -> add(a, b)
      [] op = "sub" -> sub(a, b)
      [] op = "mul" -> mul(a, b)
      [] op = "truediv" -> truediv(a, b)
      [] op = "power" -> power(a, b)

\* floor(v) == 114514 in main; floor is taken of the values main can meet.
floor(a) ==
    CASE a = M_E -> 2
      [] a = M_PI -> 3
      [] IsRat(a) -> a.n \div a.d

(* -------------------------------- heap --------------------------------- *)

NULL == 0

NullExpr == [expr |-> NULL, type |-> 0]

malloc(m, blk) == Append(m, blk)

\* The pointer the next malloc returns.
fresh(m) == Len(m) + 1

free(m, p) == [m EXCEPT ![p].freed = @ + 1]

\* The ExprList and its array are one block: they are allocated together
\* and freed together.  expr holds the first size slots of the array.
create_expr_list(m, capacity) ==
    malloc(m, [kind |-> "list", expr |-> <<>>, size |-> 0,
               capacity |-> capacity, freed |-> 0])

\* Mutant: the full array is replaced by a new one (malloc for realloc), so
\* the slots written so far hold no element.
append_expr_list_malloc(m, list, expr) ==
    LET l == m[list]
        grow == l.size = l.capacity
    IN  [m EXCEPT ![list] =
           [l EXCEPT !.capacity = IF grow THEN l.capacity * 2 ELSE l.capacity,
                     !.expr = Append(IF grow
                                     THEN [n \in 1..l.size |-> NullExpr]
                                     ELSE l.expr, expr),
                     !.size = l.size + 1]]

\* realloc keeps the elements; the capacity doubles when the array is full.
append_expr_list(m, list, expr) ==
    LET l == m[list]
        cap == IF l.size = l.capacity THEN l.capacity * 2 ELSE l.capacity
    IN  [m EXCEPT ![list] = [l EXCEPT !.capacity = cap,
                                      !.expr = Append(l.expr, expr),
                                      !.size = l.size + 1]]

RECURSIVE free_elems(_, _, _)
free_elems(m, es, n) ==
    IF n > Len(es) THEN m
    ELSE IF es[n].type = 1
         THEN LET t == m[es[n].expr]
              IN  free_elems(free(free(free(m, t.left.expr), t.right.expr),
                                  es[n].expr), es, n + 1)
         ELSE free_elems(m, es, n + 1)

free_expr_list(m, list) == free(free_elems(m, m[list].expr, 1), list)

\* create_double_expr and create_tuple_expr give the heap after the malloc;
\* the Expr they return points at the new block.
create_double_expr(m, value) ==
    malloc(m, [kind |-> "double", value |-> value, freed |-> 0])

double_expr(m) == [expr |-> fresh(m), type |-> 0]

create_tuple_expr(m, op, left, right) ==
    malloc(m, [kind |-> "tuple", op |-> op, left |-> left, right |-> right,
               freed |-> 0])

tuple_expr(m) == [expr |-> fresh(m), type |-> 1]

(* ------------------------- evaluator, formatter ------------------------ *)

\* Mutant: the operands are passed to the operator in the other order.
RECURSIVE expr_eval_swapped(_, _)
expr_eval_swapped(m, expr) ==
    IF expr.type = 0 THEN m[expr.expr].value
    ELSE LET tuple == m[expr.expr]
         IN  call_op(tuple.op, expr_eval_swapped(m, tuple.right),
                     expr_eval_swapped(m, tuple.left))

RECURSIVE expr_eval(_, _)
expr_eval(m, expr) ==
    IF expr.type = 0 THEN m[expr.expr].value
    ELSE LET tuple == m[expr.expr]
         IN  call_op(tuple.op, expr_eval(m, tuple.left),
                     expr_eval(m, tuple.right))

\* What an uninitialised char or buffer may hold.
Junk == {"", "?"}

op_char(op, junk) ==
    CASE op = "add" -> "+"
      [] op = "sub" -> "-"
      [] op = "mul" -> "*"
      [] op = "truediv" -> "/"
      [] op = "power" -> "^"
      [] OTHER -> junk

\* Mutant: the right operand's text is printed first.
RECURSIVE expr_repr_swapped(_, _, _)
expr_repr_swapped(m, expr, junk) ==
    IF expr.type = 0
    THEN LET value == m[expr.expr].value
         IN  IF value = M_PI THEN "pi"
             ELSE IF value = M_E THEN "e"
             ELSE junk
    ELSE LET tuple == m[expr.expr]
             left_buffer == expr_repr_swapped(m, tuple.left, junk)
             right_buffer == expr_repr_swapped(m, tuple.right, junk)
         IN  "(" \o right_buffer \o " " \o op_char(tuple.op, junk) \o " "
                 \o left_buffer \o ")"

\* junk is what the uninitialised buffers hold: a leaf that is neither M_PI
\* nor M_E writes nothing to its buffer.
RECURSIVE expr_repr(_, _, _)
expr_repr(m, expr, junk) ==
    IF expr.type = 0
    THEN LET value == m[expr.expr].value
         IN  IF value = M_PI THEN "pi"
             ELSE IF value = M_E THEN "e"
             ELSE junk
    ELSE LET tuple == m[expr.expr]
             left_buffer == expr_repr(m, tuple.left, junk)
             right_buffer == expr_repr(m, tuple.right, junk)
         IN  "(" \o left_buffer \o " " \o op_char(tuple.op, junk) \o " "
                 \o right_buffer \o ")"

(* ------------------------------ expr_iter ------------------------------ *)

\* nleft, nright and asked are history: the recursive calls the activation
\* has made at line 92, and at line 95 for the current left_list, and the
\* budget it passed to the last one.
NewFrame(limit) ==
    [limit |-> limit, pc |-> "entry", i |-> 0, j |-> 0, k |-> 0,
     list |-> NULL, left_list |-> NULL, right_list |-> NULL,
     left |-> NullExpr, nleft |-> 0, nright |-> 0, asked |-> 0]

top == stack[Len(stack)]

SetTop(f) == [stack EXCEPT ![Len(stack)] = f]

\* Mutant: the base case is missed at budget 0.
IsBase_negative(limit) == limit < 0

IsBase(limit) == limit = 0

left_budget(limit) == limit - 1

\* Mutant: the right operand is charged whatever the left operand is.
right_budget_symmetric(limit, left) == limit - 1

right_budget(limit, left) == limit - (IF left.type = 1 THEN 1 ELSE 0)

\* The budget of the recursive call the frame is about to make.
callee_limit(f) ==
    IF f.pc = "call_left" THEN left_budget(f.limit)
    ELSE right_budget(f.limit, f.left)

\* The frame once the recursive call it made has returned list.
Deliver(f, list) ==
    IF f.pc = "call_left"
    THEN [f EXCEPT !.left_list = list, !.j = 0, !.pc = "left_loop",
                   !.nright = 0]
    ELSE [f EXCEPT !.right_list = list, !.k = 0, !.pc = "right_loop"]

\* Mutant: the leaves are seeded from the end of nums.
seed_value_reversed(i) == nums[NUMS_SIZE - i]

seed_value(i) == nums[i + 1]

\* The frame as it waits for the recursive call it has just made.
Calling(f) ==
    IF f.pc = "call_left"
    THEN [f EXCEPT !.nleft = @ + 1, !.asked = callee_limit(f)]
    ELSE [f EXCEPT !.nright = @ + 1, !.asked = callee_limit(f)]

Untouched == UNCHANGED <<input, tree, result, buffer>>

\* lines 82-85
create ==
    /\ stack # <<>> /\ top.pc = "entry"
    /\ mem' = create_expr_list(mem, LIST_CAPACITY)
    /\ stack' = SetTop([top EXCEPT !.list = fresh(mem),
                                   !.pc = IF IsBase(top.limit) THEN "return"
                                          ELSE "seed"])
    /\ UNCHANGED <<mpc, budget, mlist, mi, v, out, cand, prov>>
    /\ Untouched

\* lines 87-89, one iteration or the exit of the loop
seed_leaf ==
    /\ stack # <<>> /\ top.pc = "seed"
    /\ IF top.i < NUMS_SIZE
       THEN LET m1 == create_double_expr(mem, seed_value(top.i))
            IN  /\ mem' = append_expr_list(m1, top.list, double_expr(mem))
                /\ stack' = SetTop([top EXCEPT !.i = @ + 1])
       ELSE /\ mem' = mem
            /\ stack' = SetTop([top EXCEPT !.i = 0, !.pc = "op_loop"])
    /\ UNCHANGED <<mpc, budget, mlist, mi, v, out, cand, prov>>
    /\ Untouched

\* line 91: the loop test; its exit is the return of line 105
op_loop ==
    /\ stack # <<>> /\ top.pc = "op_loop"
    /\ stack' = SetTop([top EXCEPT !.pc = IF top.i < OPS_SIZE THEN "call_left"
                                          ELSE "return"])
    /\ UNCHANGED <<mem, mpc, budget, mlist, mi, v, out, cand, prov>>
    /\ Untouched

\* lines 92 and 95: the recursive call
call ==
    /\ stack # <<>> /\ top.pc \in {"call_left", "call_right"}
    /\ Len(stack) < MaxDepth
    /\ stack' = Append(SetTop(Calling(top)), NewFrame(callee_limit(top)))
    /\ UNCHANGED <<mem, mpc, budget, mlist, mi, v, out, cand, prov>>
    /\ Untouched

\* lines 93-95, and line 102 with the i++ of line 91 when the loop ends
left_loop ==
    /\ stack # <<>> /\ top.pc = "left_loop"
    /\ IF top.j < mem[top.left_list].size
       THEN /\ mem' = mem
            /\ stack' = SetTop([top EXCEPT
                                  !.left = mem[top.left_list].expr[top.j + 1],
                                  !.pc = "call_right"])
       ELSE /\ mem' = free_expr_list(mem, top.left_list)
            /\ stack' = SetTop([top EXCEPT !.i = @ + 1, !.pc = "op_loop"])
    /\ UNCHANGED <<mpc, budget, mlist, mi, v, out, cand, prov>>
    /\ Untouched

\* lines 96-100, and the j++ of line 93 when the loop ends
right_loop ==
    /\ stack # <<>> /\ top.pc = "right_loop"
    /\ IF top.k < mem[top.right_list].size
       THEN LET right == mem[top.right_list].expr[top.k + 1]
                m1 == create_tuple_expr(mem, ops[top.i + 1], top.left, right)
            IN  /\ mem' = append_expr_list(m1, top.list, tuple_expr(mem))
                /\ stack' = SetTop([top EXCEPT !.k = @ + 1])
                /\ prov' = Append(prov, [i |-> top.i, j |-> top.j, k |-> top.k,
                                         left |-> top.left, right |-> right])
       ELSE /\ mem' = free_expr_list(mem, top.right_list)
            /\ stack' = SetTop([top EXCEPT !.j = @ + 1, !.pc = "left_loop"])
            /\ prov' = prov
    /\ UNCHANGED <<mpc, budget, mlist, mi, v, out, cand>>
    /\ Untouched

\* lines 85 and 105: the list goes to the caller, expr_iter or main
return ==
    /\ stack # <<>> /\ top.pc = "return"
    /\ IF Len(stack) = 1
       THEN /\ stack' = <<>>
            /\ mlist' = top.list
            /\ mi' = 0
            /\ mpc' = "loop"
       ELSE /\ stack' = [n \in 1..(Len(stack) - 1) |->
                           IF n = Len(stack) - 1
                           THEN Deliver(stack[n], top.list) ELSE stack[n]]
            /\ UNCHANGED <<mlist, mi, mpc>>
    /\ UNCHANGED <<mem, budget, v, out, cand, prov>>
    /\ Untouched

(* -------------------------------- main --------------------------------- *)

\* line 144
main_call ==
    /\ mpc = "start"
    /\ stack' = <<NewFrame(budget)>>
    /\ mpc' = "await"
    /\ UNCHANGED <<mem, budget, mlist, mi, v, out, cand, prov>>
    /\ Untouched

\* lines 145-155, one iteration or the exit of the loop
main_loop ==
    /\ mpc = "loop"
    /\ IF mi < mem[mlist].size
       THEN LET expr == mem[mlist].expr[mi + 1]
                val == expr_eval(mem, expr)
            IN  /\ v' = val
                /\ \E junk \in Junk :
                      out' = IF floor(val) = TARGET
                             THEN Append(out, <<expr_repr(mem, expr, junk),
                                                val>>)
                             ELSE out
                /\ mi' = mi + 1
                /\ mpc' = mpc
       ELSE /\ mpc' = "free"
            /\ UNCHANGED <<v, out, mi>>
    /\ UNCHANGED <<mem, stack, budget, mlist, cand, prov>>
    /\ Untouched

\* lines 157-158
main_free ==
    /\ mpc = "free"
    /\ mem' = free_expr_list(mem, mlist)
    /\ mpc' = "done"
    /\ UNCHANGED <<stack, budget, mlist, mi, v, out, cand, prov>>
    /\ Untouched

Idle == [k |-> "none"]

Init ==
    /\ budget \in (0..MaxBudget) \cup {LIMIT}
    /\ mem = <<>>
    /\ stack = <<>>
    /\ mpc = "start"
    /\ mlist = NULL
    /\ mi = 0
    /\ v = Idle
    /\ out = <<>>
    /\ cand = [lo |-> 0, hi |-> 0]
    /\ prov = <<>>
    /\ input = Idle
    /\ tree = NullExpr
    /\ result = Idle
    /\ buffer = ""

\* right_loop is no disjunct: in a run of main the call of line 95 does not
\* return, so control never reaches line 96 (DeepBudgetNeverReturns).
Next ==
    \/ main_call
    \/ create
    \/ seed_leaf
    \/ op_loop
    \/ call
    \/ left_loop
    \/ return
    \/ main_loop
    \/ main_free

Spec == Init /\ [][Next]_vars

(* ------------------- one activation of expr_iter ----------------------- *)
(* BodySpec runs lines 82-105 of a single activation.  A recursive call is *)
(* one step that hands back the collection a returning call builds: empty  *)
(* for budget 0, the NUMS_SIZE leaves for budget 1 (what expr_iter itself  *)
(* returns there, see BaseCaseEmpty and BudgetOneIsLeaves), and for a      *)
(* larger budget the leaves followed by some Binary nodes over leaves, all *)
(* freshly allocated.  cand.lo and cand.hi are the numbers of Binary nodes *)
(* for the budgets budget - 1 and budget, fixed for the run.               *)

RECURSIVE add_leaves(_, _, _)
add_leaves(m, list, i) ==
    IF i = NUMS_SIZE THEN m
    ELSE add_leaves(append_expr_list(create_double_expr(m, seed_value(i)),
                                     list, double_expr(m)), list, i + 1)

RECURSIVE add_tuples(_, _, _)
add_tuples(m, list, n) ==
    IF n = 0 THEN m
    ELSE LET m1 == create_double_expr(m, nums[1])
             m2 == create_double_expr(m1, nums[2])
             m3 == create_tuple_expr(m2, ops[1], double_expr(m),
                                     double_expr(m1))
         IN  add_tuples(append_expr_list(m3, list, tuple_expr(m2)), list,
                        n - 1)

bins_for(limit) ==
    IF limit <= 1 THEN 0 ELSE IF limit = budget THEN cand.hi ELSE cand.lo

returned_list(m, limit) ==
    LET m0 == create_expr_list(m, LIST_CAPACITY)
    IN  IF IsBase(limit) THEN m0
        ELSE add_tuples(add_leaves(m0, fresh(m), 0), fresh(m),
                        bins_for(limit))

\* lines 92 and 95, the call and its return in one step
call_returns ==
    /\ stack # <<>> /\ top.pc \in {"call_left", "call_right"}
    /\ mem' = returned_list(mem, callee_limit(top))
    /\ stack' = SetTop(Deliver(Calling(top), fresh(mem)))
    /\ UNCHANGED <<mpc, budget, mlist, mi, v, out, cand, prov>>
    /\ Untouched

BodyInit ==
    /\ budget \in 1..MaxBodyBudget
    /\ cand \in [lo : 0..MaxBin, hi : 0..MaxBin]
    /\ budget <= 2 => cand.lo = 0
    /\ budget <= 1 => cand.hi = 0
    /\ mem = <<>>
    /\ stack = <<NewFrame(budget)>>
    /\ mpc = "body"
    /\ mlist = NULL
    /\ mi = 0
    /\ v = Idle
    /\ out = <<>>
    /\ prov = <<>>
    /\ input = Idle
    /\ tree = NullExpr
    /\ result = Idle
    /\ buffer = ""

BodyNext ==
    \/ create
    \/ seed_leaf
    \/ op_loop
    \/ call_returns
    \/ left_loop
    \/ right_loop

BodySpec == BodyInit /\ [][BodyNext]_vars

(* ----------------- expr_eval and expr_repr on any tree ----------------- *)

Leaf(x) == [type |-> 0, value |-> x]

Binary(op, l, r) == [type |-> 1, op |-> op, left |-> l, right |-> r]

OpSet == {ops[n] : n \in 1..OPS_SIZE}

\* The trees with exactly n Binary nodes and leaves from vals.
RECURSIVE TreesOf(_, _)
TreesOf(vals, n) ==
    IF n = 0 THEN {Leaf(x) : x \in vals}
    ELSE UNION {{Binary(o, l, r) : o \in OpSet, l \in TreesOf(vals, a),
                                   r \in TreesOf(vals, n - 1 - a)} :
                a \in 0..(n - 1)}

Trees(vals) == UNION {TreesOf(vals, n) : n \in 0..MaxTreeOps}

\* The heap after the tree t is built bottom-up, left operand first; the
\* root is the last block.
RECURSIVE Build(_, _)
Build(m, t) ==
    IF t.type = 0 THEN create_double_expr(m, t.value)
    ELSE LET m1 == Build(m, t.left)
             m2 == Build(m1, t.right)
         IN  create_tuple_expr(m2, t.op,
                               [expr |-> Len(m1), type |-> t.left.type],
                               [expr |-> Len(m2), type |-> t.right.type])

EvalLeaves == {Num(2), Num(3), M_E}

ReprLeaves == {M_E, M_PI, Num(2)}

TreeInit(vals) ==
    /\ input \in Trees(vals)
    /\ mem = Build(<<>>, input)
    /\ tree = [expr |-> Len(mem), type |-> input.type]
    /\ result = Idle
    /\ buffer = ""
    /\ budget = 0
    /\ stack = <<>>
    /\ mpc = "tree"
    /\ mlist = NULL
    /\ mi = 0
    /\ v = Idle
    /\ out = <<>>
    /\ cand = [lo |-> 0, hi |-> 0]
    /\ prov = <<>>

\* line 148: double v = expr_eval(expr)
evaluate ==
    /\ mpc = "tree"
    /\ result = Idle
    /\ result' = expr_eval(mem, tree)
    /\ UNCHANGED <<mem, stack, mpc, budget, mlist, mi, v, out, cand, prov,
                   input, tree, buffer>>

\* lines 150-151: char buffer[256]; expr_repr(expr, buffer)
format ==
    /\ mpc = "tree"
    /\ result = Idle
    /\ \E junk \in Junk :
          /\ buffer' = expr_repr(mem, tree, junk)
          /\ result' = [k |-> "formatted", junk |-> junk]
    /\ UNCHANGED <<mem, stack, mpc, budget, mlist, mi, v, out, cand, prov,
                   input, tree>>

EvalInit == TreeInit(EvalLeaves)

ReprInit == TreeInit(ReprLeaves)

EvalSpec == EvalInit /\ [][evaluate]_vars

ReprSpec == ReprInit /\ [][format]_vars

(* ------------------------------ properties ----------------------------- *)

Frames == 1..Len(stack)

IsNode(p) == mem[p].kind \in {"double", "tuple"}

NodePtrs == {p \in 1..Len(mem) : IsNode(p)}

\* The values of a collection of leaves, in order; <<>> marks a slot that
\* holds no leaf.
LeavesOf(list) ==
    [n \in 1..mem[list].size |->
       LET e == mem[list].expr[n]
       IN  IF e.type = 0 /\ mem[e.expr].kind = "double"
           THEN <<mem[e.expr].value>> ELSE <<>>]

\* C1: on every chain of recursive calls the budget strictly decreases: each
\* activation of expr_iter has a smaller budget than the one that called it.
BudgetStrictlyDecreases ==
    \A n \in Frames : n > 1 => stack[n].limit < stack[n - 1].limit

\* With C1: within the explored depth no activation with a budget of 2 or
\* more reaches its return, and none reaches the loop of line 96.
DeepBudgetNeverReturns ==
    \A n \in Frames :
       /\ stack[n].limit >= 2 => stack[n].pc # "return"
       /\ stack[n].pc # "right_loop"

\* C2: an activation with budget 0 returns an empty collection and allocates
\* no expression node: once its list exists it is at its return, the list
\* has size 0 and is the last block of the heap; main, given budget 0, gets
\* an empty list and the heap holds no node.
BaseCaseEmpty ==
    /\ \A n \in Frames :
          stack[n].limit = 0 /\ stack[n].pc # "entry" =>
             /\ stack[n].pc = "return"
             /\ mem[stack[n].list].size = 0
             /\ mem[stack[n].list].expr = <<>>
             /\ Len(mem) = stack[n].list
    /\ budget = 0 /\ mpc \in {"loop", "free", "done"} =>
          /\ mem[mlist].size = 0
          /\ NodePtrs = {}

BaseCaseReturned ==
    /\ budget = 0 /\ mpc = "loop"
    /\ mem[mlist].kind = "list" /\ mem[mlist].size = 0

\* C3: an activation with budget 1 returns exactly the leaves of nums, in
\* order, and never starts generating right candidates: each left_list it
\* gets is empty and it never reaches line 95.
BudgetOneIsLeaves ==
    /\ \A n \in Frames :
          stack[n].limit = 1 =>
             /\ stack[n].pc \notin {"call_right", "right_loop"}
             /\ stack[n].right_list = NULL
             /\ stack[n].nright = 0
             /\ stack[n].pc = "left_loop" =>
                   mem[stack[n].left_list].size = 0
             /\ stack[n].pc = "return" =>
                   LeavesOf(stack[n].list) = <<<<M_E>>, <<M_PI>>>>
    /\ budget = 1 /\ mpc = "loop" =>
          LeavesOf(mlist) = <<<<M_E>>, <<M_PI>>>>

BudgetOneReturned ==
    \E n \in Frames :
       /\ stack[n].limit = 1 /\ stack[n].pc = "return"
       /\ stack[n].nleft = OPS_SIZE
       /\ mem[stack[n].list].size = NUMS_SIZE

\* C10: every recursive call of an activation with budget b > 0 is made
\* with b - 1 for the left candidates, and for the right candidates with
\* b - 1 when the current left candidate is a tuple and with b when it is a
\* leaf; the call for the left candidates is the (i+1)-th one when the
\* operator is ops[i], the call for the right candidates the (j+1)-th one
\* when the left candidate is left_list[j], so an activation that returns
\* has generated left candidates once per operator and, when it discards a
\* left_list, right candidates once per element of it.
CallMade ==
    /\ stack # <<>>
    /\ top.pc \in {"call_left", "call_right"}
    /\ Len(stack') >= Len(stack)
    /\ stack' # stack

AsymmetricBudgetStep ==
    /\ CallMade =>
          LET f == top
              g == stack'[Len(stack)]
          IN  /\ f.limit > 0
              /\ f.pc = "call_left" =>
                    /\ g.asked = f.limit - 1
                    /\ f.nleft = f.i /\ g.nleft = f.i + 1
              /\ f.pc = "call_right" =>
                    /\ f.left = mem[f.left_list].expr[f.j + 1]
                    /\ f.nright = f.j /\ g.nright = f.j + 1
                    /\ g.asked = IF mem[f.left.expr].kind = "tuple"
                                 THEN f.limit - 1 ELSE f.limit
              /\ Len(stack') > Len(stack) =>
                    stack'[Len(stack')].limit = g.asked
    /\ \A n \in Frames :
          /\ stack[n].pc = "return" /\ stack[n].limit > 0 =>
                stack[n].nleft = OPS_SIZE
          /\ stack[n].pc = "left_loop" => stack[n].nright = stack[n].j

AsymmetricBudget == [][AsymmetricBudgetStep]_vars

\* A right call has just been made for a tuple, after the ones for the leaves.
RightCallForTuple ==
    /\ stack # <<>> /\ top.pc = "right_loop" /\ top.k = 0
    /\ top.j >= NUMS_SIZE
    /\ mem[top.left.expr].kind = "tuple"
    /\ top.asked = top.limit - 1
    /\ top.nright = top.j + 1

\* C5: once main has destroyed the result, every expression node that was
\* allocated has been freed exactly once.
AllNodesFreedOnce ==
    mpc = "done" => \A p \in NodePtrs : mem[p].freed = 1

\* The places that point at node p: the operand slots of tuples.
Parents(p) ==
    {t \in NodePtrs : mem[t].kind = "tuple" /\ mem[t].left.expr = p} \X {"left"}
    \cup
    {t \in NodePtrs : mem[t].kind = "tuple" /\ mem[t].right.expr = p} \X {"right"}

InLiveList(p) ==
    \E l \in 1..Len(mem) :
       /\ mem[l].kind = "list" /\ mem[l].freed = 0
       /\ \E n \in 1..mem[l].size : mem[l].expr[n].expr = p

RECURSIVE NodesOf(_)
NodesOf(e) ==
    IF mem[e.expr].kind = "tuple"
    THEN {e.expr} \cup NodesOf(mem[e.expr].left) \cup NodesOf(mem[e.expr].right)
    ELSE {e.expr}

ResultNodes(list) ==
    UNION {NodesOf(mem[list].expr[n]) : n \in 1..mem[list].size}

LexLess(a, b) ==
    \/ a.i < b.i
    \/ a.i = b.i /\ a.j < b.j
    \/ a.i = b.i /\ a.j = b.j /\ a.k < b.k

\* The n-th candidate of a collection handed back by a recursive call is
\* the leaf nums[n] for n <= NUMS_SIZE and a tuple after that.
IsCandidate(e, pos) ==
    /\ e.expr \in 1..Len(mem)
    /\ IF pos < NUMS_SIZE
       THEN e.type = 0 /\ mem[e.expr].kind = "double"
                       /\ mem[e.expr].value = nums[pos + 1]
       ELSE e.type = 1 /\ mem[e.expr].kind = "tuple"

Seeded(f) ==
    IF f.pc = "entry" THEN 0 ELSE IF f.pc = "seed" THEN f.i ELSE NUMS_SIZE

\* C7: the result collection is, at every moment, the leaves of nums in
\* order followed by one tuple per append of line 98, in the order of the
\* appends: the n-th tuple has the operator, the left and the right
\* candidate of the n-th append, and the appends come in increasing
\* lexicographic order of (operator index, left position, right position).
\* No element already in the collection is moved or overwritten, whatever
\* the capacity.
ResultOrdered ==
    \A n \in Frames :
       stack[n].list # NULL =>
          LET f == stack[n]
              l == mem[f.list]
          IN  /\ l.size = Seeded(f) + Len(prov)
              /\ Len(l.expr) = l.size
              /\ l.size <= l.capacity
              /\ \A q \in 1..Seeded(f) : IsCandidate(l.expr[q], q - 1)
              /\ \A q \in 1..Len(prov) :
                    LET e == l.expr[NUMS_SIZE + q]
                    IN  /\ e.type = 1 /\ e.expr \in 1..Len(mem)
                        /\ mem[e.expr].kind = "tuple"
                        /\ mem[e.expr].op = ops[prov[q].i + 1]
                        /\ mem[e.expr].left = prov[q].left
                        /\ mem[e.expr].right = prov[q].right
                        /\ IsCandidate(prov[q].left, prov[q].j)
                        /\ IsCandidate(prov[q].right, prov[q].k)
              /\ \A q \in 1..(Len(prov) - 1) : LexLess(prov[q], prov[q + 1])

ResultGrownAndReturned ==
    /\ stack # <<>> /\ top.pc = "return"
    /\ mem[top.list].size > LIST_CAPACITY
    /\ mem[top.list].capacity = 2 * LIST_CAPACITY
    /\ prov[Len(prov)].i = OPS_SIZE - 1
    /\ prov[Len(prov)].j >= NUMS_SIZE
    /\ prov[Len(prov)].k >= NUMS_SIZE

\* The operator of each function of ops, applied to two integers.
KindOfInts(op, a, b) ==
    CASE op = "add" -> [n |-> a + b, d |-> 1]
      [] op = "sub" -> [n |-> a - b, d |-> 1]
      [] op = "mul" -> [n |-> a * b, d |-> 1]
      [] op = "truediv" -> [n |-> a, d |-> b]
      [] op = "power" -> [n |-> IntPow(a, b), d |-> 1]

RECURSIVE Fold(_)
Fold(t) ==
    IF t.type = 0 THEN t.value
    ELSE call_op(t.op, Fold(t.left), Fold(t.right))

IntLeaf(t) == t.type = 0 /\ t.value.k = "rat" /\ t.value.d = 1

\* C8: expr_eval is the fold of the tree and leaves the heap as it was: a
\* leaf gives its value, a tuple gives its operator applied to the value of
\* the left operand first and of the right operand second.  On two integer
\* leaves a and b the result is a + b, a - b, a * b, a / b or a ^ b.
EvaluateIsFold ==
    result # Idle =>
       /\ result = Fold(input)
       /\ mem = Build(<<>>, input)
       /\ input.type = 0 => result = input.value
       /\ input.type = 1 /\ IntLeaf(input.left) /\ IntLeaf(input.right) =>
             LET q == KindOfInts(input.op, input.left.value.n,
                                 input.right.value.n)
             IN  /\ result.k = "rat"
                 /\ result.n * q.d = q.n * result.d

EvaluatedNested ==
    /\ result # Idle /\ result.k = "rat" /\ result.d = 3
    /\ input.type = 1 /\ input.op = "truediv"
    /\ input.left.type = 1 /\ input.left.op = "sub"
    /\ input.right.type = 0

RECURSIVE Infix(_)
Infix(t) ==
    IF t.type = 0 THEN (IF t.value = M_E THEN "e" ELSE "pi")
    ELSE "(" \o Infix(t.left) \o " "
             \o (CASE t.op = "add" -> "+" [] t.op = "sub" -> "-"
                   [] t.op = "mul" -> "*" [] t.op = "truediv" -> "/"
                   [] t.op = "power" -> "^")
             \o " " \o Infix(t.right) \o ")"

RECURSIVE NamedLeaves(_)
NamedLeaves(t) ==
    IF t.type = 0 THEN t.value \in {M_E, M_PI}
    ELSE NamedLeaves(t.left) /\ NamedLeaves(t.right)

\* C9: on a tree whose leaves are M_E and M_PI, expr_repr writes the infix
\* form: "e" or "pi" for a leaf, "(" left " " symbol " " right ")" for a
\* tuple with the symbol + - * / ^ of its operator, the left operand's text
\* before the right operand's; Binary(mul, e, pi) gives "(e * pi)".
FormatIsInfix ==
    result # Idle /\ NamedLeaves(input) =>
       /\ buffer = Infix(input)
       /\ input = Leaf(M_E) => buffer = "e"
       /\ input = Leaf(M_PI) => buffer = "pi"
       /\ input = Binary("mul", Leaf(M_E), Leaf(M_PI)) => buffer = "(e * pi)"

FormattedNested ==
    /\ result # Idle
    /\ input = Binary("power", Leaf(M_E),
                      Binary("truediv", Leaf(M_PI), Leaf(M_E)))
    /\ buffer = "(e ^ (pi / e))"

====
